---- MODULE Spec2Model ----
(***************************************************************************)
(* Model of clippy_lints/src/types/mod.rs: the two late lint passes Types  *)
(* (wrapper-pattern detection by the recursive walker check_ty) and        *)
(* TypeComplexity (the nesting-weighted scoring visitor and its threshold  *)
(* check), together with the declaration hooks that feed them.            *)
(*                                                                         *)
(* A behaviour is one declaration handed over by the host: Init chooses    *)
(* the declaration and the configuration, and each action is one hook of   *)
(* one pass, run to completion on that declaration.  Everything a hook     *)
(* does (calls of check_ty, detector calls, span_lint calls, visitor       *)
(* steps) is appended to the pass's log, so that the properties below are  *)
(* statements about what the code did.                                     *)
(*                                                                         *)
(* score and nest are u64 in the source; the trees of this model keep      *)
(* every sum far below 2^31, so no wrap-around can occur within the        *)
(* bounds and plain integers are used.                                     *)
(*                                                                         *)
(* A second part models library/std/src/sys/pal/unix/args.rs (module imp): *)
(* the statics ARGC and ARGV, really_init which stores them, and clone()   *)
(* behind args(), as a concurrent program under the specification ArgsSpec.*)
(***************************************************************************)
EXTENDS Integers, Sequences, FiniteSets, TLC

VARIABLES decl, threshold, vec_box_size_threshold, called, types_log, complexity_log

\* args.rs: the two statics, the relaxed stores not yet visible to other
\* threads, the arguments of really_init, its position, and the state of
\* every caller of args().
VARIABLES ARGC, ARGV, pending, sys_argc, sys_argv, init_pc, clone_st

lint_vars == <<decl, threshold, vec_box_size_threshold, called, types_log, complexity_log>>

args_vars == <<ARGC, ARGV, pending, sys_argc, sys_argv, init_pc, clone_st>>

vars == <<lint_vars, args_vars>>

(***************************************************************************)
(* Bounds.                                                                 *)
(***************************************************************************)
\* Number of constructor levels above a leaf in a type tree.
MaxDepth == 3

\* Largest argc the system hands to really_init.
MaxArgc == 2

\* Number of threads that call args().
NumCallers == 2

\* Number of parameters of a function signature.
MaxInputs == 1

(***************************************************************************)
(* hir::Ty.  One record shape for every node:                              *)
(*   kind   TyKind tag                                                     *)
(*   exp    span.from_expansion()                                          *)
(*   res    for a Path: the DefId name cx.qpath_res(..).opt_def_id()       *)
(*          yields, "None" when it yields None                             *)
(*   qpath  for a Path: the QPath variant                                  *)
(*   qself  for a Path: the qualifying type, a sequence of 0 or 1 nodes    *)
(*   segs   for a Path: the generic arguments of each path segment         *)
(*   tys    for the other kinds: the contained types, in syntactic order   *)
(*   abi    for a BareFn: the ABI                                          *)
(*   lt     for a TraitObject: some bound has a lifetime generic parameter *)
(***************************************************************************)
Ty(kind, exp, res, qpath, qself, segs, tys, abi, lt) ==
    [kind |-> kind, exp |-> exp, res |-> res, qpath |-> qpath, qself |-> qself,
     segs |-> segs, tys |-> tys, abi |-> abi, lt |-> lt]

PathTy(exp, res, qpath, qself, segs) == Ty("Path", exp, res, qpath, qself, segs, <<>>, "-", FALSE)

KindTy(kind, exp, tys) == Ty(kind, exp, "-", "-", <<>>, <<>>, tys, "-", FALSE)

InferTy == KindTy("Infer", FALSE, <<>>)

NeverTy == KindTy("Never", FALSE, <<>>)

U8Ty == PathTy(FALSE, "Adt", "Resolved", <<>>, <<<<>>>>)

LinkedListTy == PathTy(FALSE, "LinkedList", "Resolved", <<>>, <<<<>>>>)

LangItemTy == PathTy(FALSE, "Adt", "LangItem", <<>>, <<>>)

\* hir::GenericArg: Type(ty), Lifetime or Const; ty is read only under tag "Type".
TypeArg(t) == [tag |-> "Type", ty |-> t]

LifetimeArg == [tag |-> "Lifetime", ty |-> NeverTy]

ConstArg == [tag |-> "Const", ty |-> NeverTy]

Leaves == {InferTy, U8Ty, LinkedListTy}

CoreCtors == {"Box", "Rptr", "Tup"}

Ctors == CoreCtors \cup
    {"Vec", "Rc", "Option", "Adt", "Unresolved", "BareFnRust", "Segments", "QSelf", "TypeRelative",
     "Ptr", "Slice", "Array", "BareFnC", "DynLt", "Dyn", "ExpVec", "ExpTup"}

\* The type built by constructor c around the type t.
Wrap(c, t) ==
    CASE c \in {"Box", "Vec", "Rc", "Option", "Adt"} ->
            PathTy(FALSE, c, "Resolved", <<>>, <<<<TypeArg(t)>>>>)
      [] c = "Unresolved" -> PathTy(FALSE, "None", "Resolved", <<>>, <<<<TypeArg(t)>>>>)
      [] c = "Segments" ->
            PathTy(FALSE, "Adt", "Resolved", <<>>,
                   <<<<LifetimeArg, TypeArg(t)>>, <<ConstArg, TypeArg(LinkedListTy)>>>>)
      [] c = "QSelf" ->
            PathTy(FALSE, "Adt", "Resolved", <<t>>, <<<<>>, <<TypeArg(LangItemTy)>>>>)
      [] c = "TypeRelative" ->
            PathTy(FALSE, "None", "TypeRelative", <<t>>, <<<<LifetimeArg, TypeArg(LinkedListTy)>>>>)
      [] c \in {"Rptr", "Ptr", "Slice", "Array"} -> KindTy(c, FALSE, <<t>>)
      [] c = "Tup" -> KindTy("Tup", FALSE, <<t, U8Ty>>)
      [] c = "BareFnRust" -> Ty("BareFn", FALSE, "-", "-", <<>>, <<>>, <<t>>, "Rust", FALSE)
      [] c = "BareFnC" -> Ty("BareFn", FALSE, "-", "-", <<>>, <<>>, <<t>>, "C", FALSE)
      [] c = "DynLt" -> Ty("TraitObject", FALSE, "-", "-", <<>>, <<>>, <<t>>, "-", TRUE)
      [] c = "Dyn" -> Ty("TraitObject", FALSE, "-", "-", <<>>, <<>>, <<t>>, "-", FALSE)
      [] c = "ExpVec" -> PathTy(TRUE, "Vec", "Resolved", <<>>, <<<<TypeArg(t)>>>>)
      [] c = "ExpTup" -> KindTy("Tup", TRUE, <<t, LinkedListTy>>)

RECURSIVE CoreTrees(_)
\* Leaves under at most d levels of core constructors.
CoreTrees(d) ==
    IF d <= 0 THEN Leaves
    ELSE Leaves \cup {Wrap(c, t) : c \in CoreCtors, t \in CoreTrees(d - 1)}

WrapAll(S) == S \cup {Wrap(c, t) : c \in Ctors, t \in S}

\* The type trees of the model: at most MaxDepth constructor levels, the two
\* outermost ranging over every constructor, the deeper ones over the core.
Trees == WrapAll(WrapAll(CoreTrees(MaxDepth - 2)))

\* The types used in signatures and in constant-like items.
SampleTys ==
    {U8Ty,
     Wrap("Box", Wrap("Vec", U8Ty)),
     Wrap("Rptr", Wrap("Box", U8Ty)),
     Wrap("Tup", Wrap("BareFnRust", LinkedListTy)),
     Wrap("ExpVec", Wrap("Box", U8Ty))}

(***************************************************************************)
(* The detectors (box_vec.rs, redundant_allocation.rs, rc_buffer.rs,       *)
(* vec_box.rs, option_option.rs, linked_list.rs, borrowed_box.rs).  Each   *)
(* returns whether it fired; a detector that fires reports one lint at the *)
(* span of the node it was called on.                                      *)
(***************************************************************************)
\* The first type argument of the last path segment, as a sequence of 0 or 1.
FirstTypeArg(hir_ty) ==
    IF hir_ty.kind # "Path" \/ hir_ty.segs = <<>> THEN <<>>
    ELSE LET args == hir_ty.segs[Len(hir_ty.segs)]
             tya == SelectSeq(args, LAMBDA a : a.tag = "Type")
         IN  IF tya = <<>> THEN <<>> ELSE <<tya[1].ty>>

IsPathTo(arg, ids) == arg # <<>> /\ arg[1].kind = "Path" /\ arg[1].res \in ids

\* The host's estimate of a type's stack size, as a sequence of 0 or 1.
EstimatedStackSize(ty) ==
    CASE ty.kind \in {"Infer", "Slice", "TraitObject", "Never"} -> <<>>
      [] ty.kind = "Path" -> IF ty.res = "None" THEN <<>> ELSE <<8>>
      [] ty.kind = "Array" -> <<8192>>
      [] ty.kind = "Tup" -> <<16>>
      [] OTHER -> <<8>>

box_vec_check(hir_ty) ==
    hir_ty.res = "Box" /\ IsPathTo(FirstTypeArg(hir_ty), {"Vec"})

redundant_allocation_check(hir_ty) ==
    LET arg == FirstTypeArg(hir_ty) IN
    \/ /\ hir_ty.res \in {"Rc", "Arc"}
       /\ arg # <<>>
       /\ (arg[1].kind = "Rptr" \/ IsPathTo(arg, {"Rc", "Arc", "Box"}))
    \/ /\ hir_ty.res = "Box"
       /\ arg # <<>>
       /\ arg[1].kind = "Rptr"

rc_buffer_check(hir_ty) ==
    hir_ty.res \in {"Rc", "Arc"} /\ IsPathTo(FirstTypeArg(hir_ty), {"Vec", "String"})

vec_box_check(hir_ty, box_size_threshold) ==
    /\ hir_ty.res = "Vec"
    /\ IsPathTo(FirstTypeArg(hir_ty), {"Box"})
    /\ LET boxed == FirstTypeArg(FirstTypeArg(hir_ty)[1]) IN
       /\ boxed # <<>>
       /\ EstimatedStackSize(boxed[1]) # <<>>
       /\ EstimatedStackSize(boxed[1])[1] < box_size_threshold

option_option_check(hir_ty) ==
    hir_ty.res = "Option" /\ IsPathTo(FirstTypeArg(hir_ty), {"Option"})

linked_list_check(hir_ty) == hir_ty.res = "LinkedList"

\* borrowed_box::check(cx, hir_ty, lt, mut_ty): mut_ty.ty is the pointee.
borrowed_box_check(hir_ty) ==
    hir_ty.tys[1].kind = "Path" /\ hir_ty.tys[1].res = "Box"

\* The calls of lines 300-305, in their order.
Detectors ==
    <<"box_vec", "redundant_allocation", "rc_buffer", "vec_box", "option_option", "linked_list">>

DetectorCheck(name, self, hir_ty) ==
    CASE name = "box_vec" -> box_vec_check(hir_ty)
      [] name = "redundant_allocation" -> redundant_allocation_check(hir_ty)
      [] name = "rc_buffer" -> rc_buffer_check(hir_ty)
      [] name = "vec_box" -> vec_box_check(hir_ty, self.vec_box_size_threshold)
      [] name = "option_option" -> option_option_check(hir_ty)
      [] name = "linked_list" -> linked_list_check(hir_ty)

(***************************************************************************)
(* The Types pass.  Its log holds, in order, one "check_ty" entry per call *)
(* of check_ty, one "run" entry per detector call and one "lint" entry per *)
(* span_lint call.  A node is named by its position pos: the index of the  *)
(* type in its declaration, followed by the child indices from the root    *)
(* (0 for a qualifying type, j for the j-th generic argument or contained  *)
(* type).                                                                  *)
(***************************************************************************)
Ev(ev, pos, what, is_local) == [ev |-> ev, pos |-> pos, what |-> what, local |-> is_local]

RECURSIVE FlatArgs(_)
\* p.segments.iter().flat_map(|seg| seg.args ... params.args.iter())
FlatArgs(segs) == IF segs = <<>> THEN <<>> ELSE Head(segs) \o FlatArgs(Tail(segs))

\* One detector call: the call, and the lint when it fires.
RunDetector(name, self, hir_ty, pos) ==
    <<Ev("run", pos, name, FALSE)>> \o
    (IF DetectorCheck(name, self, hir_ty) THEN <<Ev("lint", pos, name, FALSE)>> ELSE <<>>)

RECURSIVE RunDetectorsFrom(_, _, _, _)
\* triggered |= d::check(..) for each detector from the i-th on: `|=` evaluates
\* its right-hand side whatever triggered holds.
RunDetectorsFrom(i, self, hir_ty, pos) ==
    IF i > Len(Detectors) THEN <<>>
    ELSE RunDetector(Detectors[i], self, hir_ty, pos) \o RunDetectorsFrom(i + 1, self, hir_ty, pos)

Triggered(events) == \E i \in 1..Len(events) : events[i].ev = "lint"

RECURSIVE check_ty(_, _, _, _)
RECURSIVE check_generic_args(_, _, _, _, _)
RECURSIVE check_tys(_, _, _, _, _)

\* for ty in args.iter().filter_map(GenericArg::Type) { self.check_ty(cx, ty, is_local) }
\* args[j] sits at child index base + j.
check_generic_args(self, args, is_local, pos, base) ==
    IF args = <<>> THEN <<>>
    ELSE (IF Head(args).tag = "Type"
          THEN check_ty(self, Head(args).ty, is_local, Append(pos, base + 1))
          ELSE <<>>)
         \o check_generic_args(self, Tail(args), is_local, pos, base + 1)

\* The mutant of check_tys that walks the elements as if outside a local.
check_tys_not_local(self, tys, is_local, pos, base) ==
    IF tys = <<>> THEN <<>>
    ELSE check_ty(self, Head(tys), FALSE, Append(pos, base + 1))
         \o check_tys(self, Tail(tys), is_local, pos, base + 1)

\* for ty in tys { self.check_ty(cx, ty, is_local) }
check_tys(self, tys, is_local, pos, base) ==
    IF tys = <<>> THEN <<>>
    ELSE check_ty(self, Head(tys), is_local, Append(pos, base + 1))
         \o check_tys(self, Tail(tys), is_local, pos, base + 1)

\* match *qpath { ... } of lines 311-351.
check_qpath(self, hir_ty, is_local, pos) ==
    CASE hir_ty.qpath = "Resolved" /\ hir_ty.qself # <<>> ->
            check_ty(self, hir_ty.qself[1], is_local, Append(pos, 0))
            \o check_generic_args(self, FlatArgs(hir_ty.segs), is_local, pos, 0)
      [] hir_ty.qpath = "Resolved" /\ hir_ty.qself = <<>> ->
            check_generic_args(self, FlatArgs(hir_ty.segs), is_local, pos, 0)
      [] hir_ty.qpath = "TypeRelative" ->
            check_ty(self, hir_ty.qself[1], is_local, Append(pos, 0))
            \o check_generic_args(self, hir_ty.segs[1], is_local, pos, 0)
      [] hir_ty.qpath = "LangItem" -> <<>>

\* The mutant of check_path that goes on into the path after a detector fired.
check_path_no_return(self, hir_ty, is_local, pos) ==
    (IF hir_ty.res # "None" THEN RunDetectorsFrom(1, self, hir_ty, pos) ELSE <<>>)
    \o check_qpath(self, hir_ty, is_local, pos)

\* The mutant of check_path that gives up on a path without a DefId.
check_path_unresolved_stops(self, hir_ty, is_local, pos) ==
    IF hir_ty.res = "None" THEN <<>>
    ELSE LET dets == RunDetectorsFrom(1, self, hir_ty, pos)
         IN  IF Triggered(dets) THEN dets
             ELSE dets \o check_qpath(self, hir_ty, is_local, pos)

\* The arm TyKind::Path(ref qpath) if !is_local, lines 295-352.
check_path(self, hir_ty, is_local, pos) ==
    LET dets == IF hir_ty.res # "None" THEN RunDetectorsFrom(1, self, hir_ty, pos) ELSE <<>>
    IN  IF Triggered(dets) THEN dets
        ELSE dets \o check_qpath(self, hir_ty, is_local, pos)

\* The mutant of check_rptr that walks the pointee after borrowed_box fired.
check_rptr_recurses(self, hir_ty, is_local, pos) ==
    <<Ev("run", pos, "borrowed_box", is_local)>>
    \o (IF borrowed_box_check(hir_ty) THEN <<Ev("lint", pos, "borrowed_box", is_local)>> ELSE <<>>)
    \o check_ty(self, hir_ty.tys[1], is_local, Append(pos, 1))

\* The arm TyKind::Rptr(ref lt, ref mut_ty), lines 353-357.
check_rptr(self, hir_ty, is_local, pos) ==
    <<Ev("run", pos, "borrowed_box", is_local)>> \o
    (IF borrowed_box_check(hir_ty)
     THEN <<Ev("lint", pos, "borrowed_box", is_local)>>
     ELSE check_ty(self, hir_ty.tys[1], is_local, Append(pos, 1)))

\* The mutant of check_ty_match whose Path arm has lost its guard `if !is_local`.
check_ty_match_unguarded(self, hir_ty, is_local, pos) ==
    CASE hir_ty.kind = "Path" -> check_path(self, hir_ty, is_local, pos)
      [] hir_ty.kind = "Rptr" -> check_rptr(self, hir_ty, is_local, pos)
      [] hir_ty.kind \in {"Slice", "Array", "Ptr"} ->
            check_ty(self, hir_ty.tys[1], is_local, Append(pos, 1))
      [] hir_ty.kind = "Tup" -> check_tys(self, hir_ty.tys, is_local, pos, 0)
      [] OTHER -> <<>>

\* match hir_ty.kind { ... } of lines 294-367.
check_ty_match(self, hir_ty, is_local, pos) ==
    CASE hir_ty.kind = "Path" /\ ~is_local -> check_path(self, hir_ty, is_local, pos)
      [] hir_ty.kind = "Rptr" -> check_rptr(self, hir_ty, is_local, pos)
      [] hir_ty.kind \in {"Slice", "Array", "Ptr"} ->
            check_ty(self, hir_ty.tys[1], is_local, Append(pos, 1))
      [] hir_ty.kind = "Tup" -> check_tys(self, hir_ty.tys, is_local, pos, 0)
      [] OTHER -> <<>>

\* The mutant of check_ty without the expansion gate.
check_ty_no_gate(self, hir_ty, is_local, pos) ==
    <<Ev("check_ty", pos, hir_ty.kind, is_local)>> \o check_ty_match(self, hir_ty, is_local, pos)

\* Types::check_ty, lines 290-368.
check_ty(self, hir_ty, is_local, pos) ==
    <<Ev("check_ty", pos, hir_ty.kind, is_local)>> \o
    (IF hir_ty.exp THEN <<>> ELSE check_ty_match(self, hir_ty, is_local, pos))

\* Types::check_fn_decl, lines 276-284: inputs sit at indices 1.., the return
\* type at index 0.
check_fn_decl(self, fn_decl) ==
    check_tys(self, fn_decl.inputs, FALSE, <<>>, 0)
    \o (IF fn_decl.output # <<>> THEN check_ty(self, fn_decl.output[1], FALSE, <<0>>) ELSE <<>>)

(***************************************************************************)
(* The TypeComplexity pass.  The visitor is the record [score, nest]       *)
(* of TypeComplexityVisitor with the log of its steps: an "enter" entry    *)
(* holds nest and score as visit_ty finds them, an "exit" entry as it      *)
(* leaves them.                                                            *)
(***************************************************************************)
CEv(ev, pos, nest, score) == [ev |-> ev, pos |-> pos, nest |-> nest, score |-> score]

\* The mutant of AddScoreSubNest that has lost the guard on the ABI.
AddScoreSubNest_any_abi(v, ty) ==
    CASE ty.kind \in {"Infer", "Ptr", "Rptr"} -> <<1, 0>>
      [] ty.kind \in {"Path", "Slice", "Tup", "Array"} -> <<10 * v.nest, 1>>
      [] ty.kind = "BareFn" -> <<50 * v.nest, 1>>
      [] ty.kind = "TraitObject" ->
            IF ty.lt THEN <<50 * v.nest, 1>> ELSE <<20 * v.nest, 0>>
      [] OTHER -> <<0, 0>>

\* The (add_score, sub_nest) of lines 498-525.
AddScoreSubNest(v, ty) ==
    CASE ty.kind \in {"Infer", "Ptr", "Rptr"} -> <<1, 0>>
      [] ty.kind \in {"Path", "Slice", "Tup", "Array"} -> <<10 * v.nest, 1>>
      [] ty.kind = "BareFn" /\ ty.abi = "Rust" -> <<50 * v.nest, 1>>
      [] ty.kind = "TraitObject" ->
            IF ty.lt THEN <<50 * v.nest, 1>> ELSE <<20 * v.nest, 0>>
      [] OTHER -> <<0, 0>>

\* The types intravisit::walk_ty visits below ty, with their child indices:
\* the qualifying type and the type arguments of every segment of a path,
\* the contained types of the other kinds.
ChildTys(ty) ==
    IF ty.kind = "Path"
    THEN LET args == FlatArgs(ty.segs)
             idx == SelectSeq([j \in 1..Len(args) |-> j], LAMBDA j : args[j].tag = "Type")
         IN  [i \in 1..Len(ty.qself) |-> [idx |-> 0, ty |-> ty.qself[i]]]
             \o [i \in 1..Len(idx) |-> [idx |-> idx[i], ty |-> args[idx[i]].ty]]
    ELSE [i \in 1..Len(ty.tys) |-> [idx |-> i, ty |-> ty.tys[i]]]

RECURSIVE visit_ty(_, _, _)
RECURSIVE walk_children(_, _, _)

\* intravisit::walk_ty(self, ty): visit_ty on every child, in order.
walk_children(v, children, pos) ==
    IF children = <<>> THEN v
    ELSE walk_children(visit_ty(v, Head(children).ty, Append(pos, Head(children).idx)),
                       Tail(children), pos)

walk_ty(v, ty, pos) == walk_children(v, ChildTys(ty), pos)

\* The mutant of visit_ty that restores nest only for nodes without children.
visit_ty_no_restore(v, ty, pos) ==
    LET as == AddScoreSubNest(v, ty)
        v1 == [score |-> v.score + as[1], nest |-> v.nest + as[2],
               log |-> Append(v.log, CEv("enter", pos, v.nest, v.score))]
        v2 == walk_ty(v1, ty, pos)
        n3 == IF ChildTys(ty) = <<>> THEN v2.nest - as[2] ELSE v2.nest
    IN  [score |-> v2.score, nest |-> n3,
         log |-> Append(v2.log, CEv("exit", pos, n3, v2.score))]

\* TypeComplexityVisitor::visit_ty, lines 497-530.
visit_ty(v, ty, pos) ==
    LET as == AddScoreSubNest(v, ty)
        v1 == [score |-> v.score + as[1], nest |-> v.nest + as[2],
               log |-> Append(v.log, CEv("enter", pos, v.nest, v.score))]
        v2 == walk_ty(v1, ty, pos)
    IN  [score |-> v2.score, nest |-> v2.nest - as[2],
         log |-> Append(v2.log, CEv("exit", pos, v2.nest - as[2], v2.score))]

\* The mutant of check_type that reports a score equal to the threshold too.
check_type_at_threshold(self, ty, pos) ==
    IF ty.exp THEN <<>>
    ELSE LET visitor == visit_ty([score |-> 0, nest |-> 1, log |-> <<>>], ty, pos)
         IN  <<CEv("check_type", pos, 1, 0)>>
             \o visitor.log
             \o <<CEv("scored", pos, visitor.nest, visitor.score)>>
             \o (IF visitor.score >= self.threshold
                 THEN <<CEv("lint", pos, visitor.nest, visitor.score)>>
                 ELSE <<>>)

\* The mutant of check_type without the expansion gate.
check_type_no_gate(self, ty, pos) ==
    LET visitor == visit_ty([score |-> 0, nest |-> 1, log |-> <<>>], ty, pos)
    IN  <<CEv("check_type", pos, 1, 0)>>
        \o visitor.log
        \o <<CEv("scored", pos, visitor.nest, visitor.score)>>
        \o (IF visitor.score > self.threshold
            THEN <<CEv("lint", pos, visitor.nest, visitor.score)>>
            ELSE <<>>)

\* TypeComplexity::check_type, lines 465-483.  The log gets "check_type" when
\* the visitor is created, the visitor's steps, "scored" with the visitor's
\* final score and nest, and "lint" for the span_lint call.
check_type(self, ty, pos) ==
    IF ty.exp THEN <<>>
    ELSE LET visitor == visit_ty([score |-> 0, nest |-> 1, log |-> <<>>], ty, pos)
         IN  <<CEv("check_type", pos, 1, 0)>>
             \o visitor.log
             \o <<CEv("scored", pos, visitor.nest, visitor.score)>>
             \o (IF visitor.score > self.threshold
                 THEN <<CEv("lint", pos, visitor.nest, visitor.score)>>
                 ELSE <<>>)

RECURSIVE check_types(_, _, _)
\* for arg in decl.inputs { self.check_type(cx, arg) }
check_types(self, tys, base) ==
    IF tys = <<>> THEN <<>>
    ELSE check_type(self, Head(tys), <<base + 1>>) \o check_types(self, Tail(tys), base + 1)

\* TypeComplexity::check_fndecl, lines 456-463.
check_fndecl(self, fn_decl) ==
    check_types(self, fn_decl.inputs, 0)
    \o (IF fn_decl.output # <<>> THEN check_type(self, fn_decl.output[1], <<0>>) ELSE <<>>)

(***************************************************************************)
(* Declarations.  kind is the kind of the HIR node the host visits,        *)
(* of_trait whether the enclosing item is `impl Trait for ..`, ty the      *)
(* node's type (0 or 1) and fn_decl its signature.                         *)
(***************************************************************************)
SeqsUpTo(S, n) == UNION {[1..k -> S] : k \in 0..n}

NoFnDecl == [inputs |-> <<>>, output |-> <<>>]

FnDecls ==
    {[inputs |-> i, output |-> o] :
        i \in SeqsUpTo(SampleTys, MaxInputs), o \in SeqsUpTo(SampleTys, 1)}

Decl(kind, of_trait, ty, fn_decl) ==
    [kind |-> kind, of_trait |-> of_trait, ty |-> ty, fn_decl |-> fn_decl]

FnKinds == {"ItemFn", "TraitItemFnRequired", "TraitItemFnProvided", "ImplItemFn"}

TraitItemKinds == {"TraitItemConst", "TraitItemType", "TraitItemFnRequired", "TraitItemFnProvided"}

ImplItemKinds == {"ImplItemConst", "ImplItemTyAlias", "ImplItemFn"}

ItemKinds == {"ItemStatic", "ItemConst", "ItemFn"}

Decls ==
    {Decl("FieldDef", FALSE, <<t>>, NoFnDecl) : t \in Trees}
    \cup {Decl("Local", FALSE, ty, NoFnDecl) : ty \in {<<>>} \cup {<<t>> : t \in Trees}}
    \cup {Decl(k, FALSE, <<>>, f) : k \in FnKinds, f \in FnDecls}
    \cup {Decl("ImplItemFn", TRUE, <<>>, f) : f \in FnDecls}
    \cup {Decl(k, FALSE, <<t>>, NoFnDecl) :
            k \in {"ItemStatic", "ItemConst", "TraitItemConst", "TraitItemType",
                   "ImplItemConst", "ImplItemTyAlias"},
            t \in SampleTys}
    \cup {Decl(k, TRUE, <<t>>, NoFnDecl) : k \in {"ImplItemConst", "ImplItemTyAlias"}, t \in SampleTys}
    \cup {Decl("TraitItemType", FALSE, <<>>, NoFnDecl)}

\* The values of the configuration knob type-complexity-threshold.
Thresholds == {30, 60}

\* The values of the configuration knob vec-box-size-threshold.
VecBoxSizeThresholds == {4096}

\* The hooks the host's late-lint visitor calls on a declaration of kind k.
HostCalls(k) ==
    (IF k \in {"ItemFn", "TraitItemFnProvided", "ImplItemFn"} THEN {"check_fn"} ELSE {})
    \cup (IF k = "FieldDef" THEN {"check_field_def"} ELSE {})
    \cup (IF k \in ItemKinds THEN {"check_item"} ELSE {})
    \cup (IF k \in TraitItemKinds THEN {"check_trait_item"} ELSE {})
    \cup (IF k \in ImplItemKinds THEN {"check_impl_item"} ELSE {})
    \cup (IF k = "Local" THEN {"check_local"} ELSE {})

Types_self == [vec_box_size_threshold |-> vec_box_size_threshold]

TypeComplexity_self == [threshold |-> threshold]

\* The null pointer, the pointer to the system's argv array, and the pointer
\* to the k-th argument string.
NullPtr == <<>>

ArgvPtr == <<"argv">>

StrPtr(k) == <<k>>

Callers == 1..NumCallers

\* A caller of args() before clone() has started.
CloneIdle ==
    [pc |-> "idle", argv |-> NullPtr, argc |-> 0, i |-> 0, args |-> <<>>,
     deref |-> {}, null_deref |-> FALSE]

\* static ARGC = AtomicIsize::new(0); static ARGV = AtomicPtr::new(null).
StaticsInit ==
    /\ ARGC = 0
    /\ ARGV = NullPtr
    /\ pending = {}

\* No really_init and no args() call has begun.
ArgsNotStarted ==
    /\ StaticsInit
    /\ init_pc = "start"
    /\ clone_st = [t \in Callers |-> CloneIdle]

Init ==
    /\ ArgsNotStarted
    /\ sys_argc = 0
    /\ sys_argv = <<NullPtr>>
    /\ decl \in Decls
    /\ threshold \in Thresholds
    /\ vec_box_size_threshold \in VecBoxSizeThresholds
    /\ called = {}
    /\ types_log = <<>>
    /\ complexity_log = <<>>

\* The host calls hook h of pass p: once per declaration, when the
\* declaration's kind has that hook.
Calls(p, h) ==
    /\ h \in HostCalls(decl.kind)
    /\ <<p, h>> \notin called
    /\ called' = called \cup {<<p, h>>}
    /\ UNCHANGED <<decl, threshold, vec_box_size_threshold>>
    /\ UNCHANGED args_vars

\* The mutant of Types_check_fn without the skip of trait implementations.
Types_check_fn_no_skip ==
    /\ Calls("Types", "check_fn")
    /\ types_log' = types_log \o check_fn_decl(Types_self, decl.fn_decl)
    /\ UNCHANGED complexity_log

\* Types::check_fn, lines 241-250.
Types_check_fn ==
    /\ Calls("Types", "check_fn")
    /\ types_log' = types_log \o
          (IF decl.kind = "ImplItemFn" /\ decl.of_trait THEN <<>>
           ELSE check_fn_decl(Types_self, decl.fn_decl))
    /\ UNCHANGED complexity_log

\* Types::check_field_def, lines 252-254.
Types_check_field_def ==
    /\ Calls("Types", "check_field_def")
    /\ types_log' = types_log \o check_ty(Types_self, decl.ty[1], FALSE, <<1>>)
    /\ UNCHANGED complexity_log

\* Types::check_trait_item, lines 256-262.
Types_check_trait_item ==
    /\ Calls("Types", "check_trait_item")
    /\ types_log' = types_log \o
          (CASE decl.kind \in {"TraitItemConst", "TraitItemType"} /\ decl.ty # <<>> ->
                    check_ty(Types_self, decl.ty[1], FALSE, <<1>>)
             [] decl.kind \in {"TraitItemFnRequired", "TraitItemFnProvided"} ->
                    check_fn_decl(Types_self, decl.fn_decl)
             [] OTHER -> <<>>)
    /\ UNCHANGED complexity_log

\* The mutant of Types_check_local that walks the annotation like a field's type.
Types_check_local_as_field ==
    /\ Calls("Types", "check_local")
    /\ types_log' = types_log \o
          (IF decl.ty # <<>> THEN check_ty(Types_self, decl.ty[1], FALSE, <<1>>) ELSE <<>>)
    /\ UNCHANGED complexity_log

\* Types::check_local, lines 264-268.
Types_check_local ==
    /\ Calls("Types", "check_local")
    /\ types_log' = types_log \o
          (IF decl.ty # <<>> THEN check_ty(Types_self, decl.ty[1], TRUE, <<1>>) ELSE <<>>)
    /\ UNCHANGED complexity_log

\* TypeComplexity::check_fn, lines 406-416.
TypeComplexity_check_fn ==
    /\ Calls("TypeComplexity", "check_fn")
    /\ complexity_log' = complexity_log \o check_fndecl(TypeComplexity_self, decl.fn_decl)
    /\ UNCHANGED types_log

\* TypeComplexity::check_field_def, lines 418-421.
TypeComplexity_check_field_def ==
    /\ Calls("TypeComplexity", "check_field_def")
    /\ complexity_log' = complexity_log \o check_type(TypeComplexity_self, decl.ty[1], <<1>>)
    /\ UNCHANGED types_log

\* TypeComplexity::check_item, lines 423-429.
TypeComplexity_check_item ==
    /\ Calls("TypeComplexity", "check_item")
    /\ complexity_log' = complexity_log \o
          (IF decl.kind \in {"ItemStatic", "ItemConst"}
           THEN check_type(TypeComplexity_self, decl.ty[1], <<1>>)
           ELSE <<>>)
    /\ UNCHANGED types_log

\* TypeComplexity::check_trait_item, lines 431-438.
TypeComplexity_check_trait_item ==
    /\ Calls("TypeComplexity", "check_trait_item")
    /\ complexity_log' = complexity_log \o
          (CASE decl.kind \in {"TraitItemConst", "TraitItemType"} /\ decl.ty # <<>> ->
                    check_type(TypeComplexity_self, decl.ty[1], <<1>>)
             [] decl.kind = "TraitItemFnRequired" ->
                    check_fndecl(TypeComplexity_self, decl.fn_decl)
             [] OTHER -> <<>>)
    /\ UNCHANGED types_log

\* TypeComplexity::check_impl_item, lines 440-446.
TypeComplexity_check_impl_item ==
    /\ Calls("TypeComplexity", "check_impl_item")
    /\ complexity_log' = complexity_log \o
          (IF decl.kind \in {"ImplItemConst", "ImplItemTyAlias"}
           THEN check_type(TypeComplexity_self, decl.ty[1], <<1>>)
           ELSE <<>>)
    /\ UNCHANGED types_log

\* TypeComplexity::check_local, lines 448-452.
TypeComplexity_check_local ==
    /\ Calls("TypeComplexity", "check_local")
    /\ complexity_log' = complexity_log \o
          (IF decl.ty # <<>> THEN check_type(TypeComplexity_self, decl.ty[1], <<1>>) ELSE <<>>)
    /\ UNCHANGED types_log

Next ==
    \/ Types_check_fn
    \/ Types_check_field_def
    \/ Types_check_trait_item
    \/ Types_check_local
    \/ TypeComplexity_check_fn
    \/ TypeComplexity_check_field_def
    \/ TypeComplexity_check_item
    \/ TypeComplexity_check_trait_item
    \/ TypeComplexity_check_impl_item
    \/ TypeComplexity_check_local

Spec == Init /\ [][Next]_vars

(***************************************************************************)
(* args.rs, module imp.                                                    *)
(***************************************************************************)
\* The argv arrays the system may pass with argc = n: n entries, each the
\* pointer to its own string or null, followed by the terminating null.
ArgvArrays(n) ==
    {a \in [1..(n + 1) -> {NullPtr} \cup {StrPtr(k) : k \in 1..n}] :
        /\ a[n + 1] = NullPtr
        /\ \A k \in 1..n : a[k] \in {NullPtr, StrPtr(k)}}

ArgsInit ==
    /\ ArgsNotStarted
    /\ sys_argc \in 0..MaxArgc
    /\ sys_argv \in ArgvArrays(sys_argc)
    /\ decl = Decl("Local", FALSE, <<U8Ty>>, NoFnDecl)
    /\ threshold \in {t \in Thresholds : \A u \in Thresholds : t <= u}
    /\ vec_box_size_threshold \in VecBoxSizeThresholds
    /\ called = {}
    /\ types_log = <<>>
    /\ complexity_log = <<>>

\* really_init, line 96: ARGC.store(argc, Relaxed).
really_init_store_ARGC ==
    /\ init_pc = "start"
    /\ init_pc' = "store_ARGV"
    /\ pending' = pending \cup {"ARGC"}
    /\ UNCHANGED <<ARGC, ARGV, sys_argc, sys_argv, clone_st>>
    /\ UNCHANGED lint_vars

\* really_init, line 97: ARGV.store(argv, Relaxed).
really_init_store_ARGV ==
    /\ init_pc = "store_ARGV"
    /\ init_pc' = "done"
    /\ pending' = pending \cup {"ARGV"}
    /\ UNCHANGED <<ARGC, ARGV, sys_argc, sys_argv, clone_st>>
    /\ UNCHANGED lint_vars

\* A relaxed store becomes visible to the other threads; the two stores are
\* not ordered with each other.
store_visible(x) ==
    /\ x \in pending
    /\ pending' = pending \ {x}
    /\ ARGC' = (IF x = "ARGC" THEN sys_argc ELSE ARGC)
    /\ ARGV' = (IF x = "ARGV" THEN ArgvPtr ELSE ARGV)
    /\ UNCHANGED <<sys_argc, sys_argv, init_pc, clone_st>>
    /\ UNCHANGED lint_vars

\* A step of caller t inside clone(): only its own state changes.
CloneStep(t, st) ==
    /\ clone_st' = [clone_st EXCEPT ![t] = st]
    /\ UNCHANGED <<ARGC, ARGV, pending, sys_argc, sys_argv, init_pc>>
    /\ UNCHANGED lint_vars

\* clone, line 145: let argv = ARGV.load(Relaxed).
clone_load_ARGV(t) ==
    /\ clone_st[t].pc = "idle"
    /\ CloneStep(t, [clone_st[t] EXCEPT !.pc = "load_ARGC", !.argv = ARGV])

\* The mutant of clone_load_ARGC that loads ARGC whatever argv is.
clone_load_ARGC_unchecked(t) ==
    /\ clone_st[t].pc = "load_ARGC"
    /\ CloneStep(t, [clone_st[t] EXCEPT !.pc = "loop", !.argc = ARGC, !.i = 0])

\* clone, lines 146-147: argc is 0 when argv is null, else ARGC.load(Relaxed).
clone_load_ARGC(t) ==
    /\ clone_st[t].pc = "load_ARGC"
    /\ CloneStep(t, [clone_st[t] EXCEPT
                        !.pc = "loop",
                        !.argc = (IF clone_st[t].argv = NullPtr THEN 0 ELSE ARGC),
                        !.i = 0])

\* clone, lines 148-166: one iteration of for i in 0..argc.  It reads
\* *argv.offset(i), breaks on a null entry, and pushes the string otherwise.
clone_loop(t) ==
    LET st == clone_st[t]
    IN  /\ st.pc = "loop"
        /\ st.i < st.argc
        /\ IF st.argv = NullPtr \/ st.i + 1 > Len(sys_argv)
           THEN CloneStep(t, [st EXCEPT !.pc = "done",
                                        !.null_deref = (st.argv = NullPtr),
                                        !.deref = st.deref \cup {st.i}])
           ELSE IF sys_argv[st.i + 1] = NullPtr
                THEN CloneStep(t, [st EXCEPT !.pc = "done",
                                             !.deref = st.deref \cup {st.i}])
                ELSE CloneStep(t, [st EXCEPT !.args = Append(st.args, sys_argv[st.i + 1]),
                                             !.i = st.i + 1,
                                             !.deref = st.deref \cup {st.i}])

\* clone, line 168: the loop has run through 0..argc; args is returned.
clone_return(t) ==
    /\ clone_st[t].pc = "loop"
    /\ clone_st[t].i >= clone_st[t].argc
    /\ CloneStep(t, [clone_st[t] EXCEPT !.pc = "done"])

\* args(), lines 131-133: one call of clone() by thread t.
args(t) ==
    \/ clone_load_ARGV(t)
    \/ clone_load_ARGC(t)
    \/ clone_loop(t)
    \/ clone_return(t)

ArgsNext ==
    \/ really_init_store_ARGC
    \/ really_init_store_ARGV
    \/ \E x \in {"ARGC", "ARGV"} : store_visible(x)
    \/ \E t \in Callers : args(t)

ArgsSpec == ArgsInit /\ [][ArgsNext]_vars

(***************************************************************************)
(* Vocabulary of the properties.                                           *)
(***************************************************************************)
\* p is a proper prefix of q: the node at q lies strictly below the node at p.
Below(p, q) == Len(p) < Len(q) /\ SubSeq(q, 1, Len(p)) = p

\* The type of the declaration at index i (see check_fn_decl for the indices).
TyAt(i) ==
    IF decl.ty # <<>> THEN decl.ty[1]
    ELSE IF i = 0 THEN decl.fn_decl.output[1] ELSE decl.fn_decl.inputs[i]

RECURSIVE Sub(_, _)
\* The node of ty reached by the child indices path.
Sub(ty, path) ==
    IF path = <<>> THEN ty
    ELSE LET cs == ChildTys(ty)
             c == CHOOSE k \in 1..Len(cs) : cs[k].idx = Head(path)
         IN  Sub(cs[c].ty, Tail(path))

\* The node a log entry's position names.
NodeAt(pos) == Sub(TyAt(pos[1]), Tail(pos))

TI == 1..Len(types_log)

CI == 1..Len(complexity_log)

PathDetectors == {Detectors[i] : i \in 1..Len(Detectors)}

TypesCalled(h) == <<"Types", h>> \in called

ComplexityCalled(h) == <<"TypeComplexity", h>> \in called

\* Some detector of the fixed list fires on the node: the walk of the node
\* alone, outside a local, reports a lint.
WouldFire(ty) == Triggered(check_ty(Types_self, ty, FALSE, <<1>>))

\* The score the visitor computes for a tree.
Score(ty) == visit_ty([score |-> 0, nest |-> 1, log |-> <<>>], ty, <<1>>).score

(***************************************************************************)
(* C1.  At a named-path node the detectors are tried in the fixed order    *)
(* and the first one that fires ends the node: after a lint of one of the  *)
(* six detectors at a node, no detector is called and no lint is reported  *)
(* at that node (so a node never gets two findings).  Stated for the       *)
(* declarations whose types a single hook walks.                           *)
(***************************************************************************)
C1_FirstDetectorEndsNode ==
    \A i \in TI : \A j \in TI :
        (/\ i < j
         /\ types_log[i].ev = "lint"
         /\ types_log[i].what \in PathDetectors
         /\ types_log[j].pos = types_log[i].pos
         /\ decl.kind # "TraitItemFnProvided")
        => types_log[j].ev \notin {"run", "lint"}

(***************************************************************************)
(* C2.  When a detector fires on a named-path node, the walk does not go   *)
(* below that node: the log holds no check_ty call, detector call or lint  *)
(* for any position strictly below the position of such a lint.            *)
(***************************************************************************)
C2_NoRecursionAfterFinding ==
    \A i \in TI : \A j \in TI :
        (types_log[i].ev = "lint" /\ types_log[i].what \in PathDetectors)
        => ~Below(types_log[i].pos, types_log[j].pos)

\* A detector fired on a node one of whose children would fire too.
C2_Witness ==
    \E i \in TI :
        /\ types_log[i].ev = "lint"
        /\ types_log[i].what \in PathDetectors
        /\ LET cs == ChildTys(NodeAt(types_log[i].pos))
           IN  \E k \in 1..Len(cs) : WouldFire(cs[k].ty)

C4_LocalPathRecurses ==
    \A i \in TI :
        (/\ types_log[i].ev = "check_ty"
         /\ types_log[i].local
         /\ NodeAt(types_log[i].pos).kind = "Path"
         /\ ~NodeAt(types_log[i].pos).exp)
        => LET cs == ChildTys(NodeAt(types_log[i].pos))
           IN  \A k \in 1..Len(cs) :
                  \E j \in TI : /\ types_log[j].ev = "check_ty"
                                /\ types_log[j].local
                                /\ types_log[j].pos = Append(types_log[i].pos, cs[k].idx)

(***************************************************************************)
(* C4 as amended.  When check_ty reaches a named-path node with            *)
(* is_local = true, the Path arm's guard fails as a whole: no detector is  *)
(* called, and the walk does not go below the node either, so the log      *)
(* holds nothing but the check_ty call for the node and nothing for any    *)
(* position strictly below it.                                             *)
(***************************************************************************)
C4_LocalPathIsLeaf ==
    \A i \in TI :
        (/\ types_log[i].ev = "check_ty"
         /\ types_log[i].local
         /\ NodeAt(types_log[i].pos).kind = "Path")
        => \A j \in TI :
              /\ ~Below(types_log[i].pos, types_log[j].pos)
              /\ types_log[j].pos = types_log[i].pos => j = i

\* The walk reached, in a local, a named path that has type arguments.
C4_Witness ==
    \E i \in TI :
        /\ types_log[i].ev = "check_ty"
        /\ types_log[i].local
        /\ NodeAt(types_log[i].pos).kind = "Path"
        /\ ~NodeAt(types_log[i].pos).exp
        /\ Len(types_log[i].pos) > 1
        /\ ChildTys(NodeAt(types_log[i].pos)) # <<>>

(***************************************************************************)
(* C5 as claimed.  For a local binding the pattern walk reports no lint of *)
(* any kind at any node.                                                   *)
(***************************************************************************)
C5_LocalNoFinding ==
    decl.kind = "Local" => \A i \in TI : types_log[i].ev # "lint"

(***************************************************************************)
(* C5 as amended.  For a local binding none of the six named-path          *)
(* detectors is called at any node, and every lint the walk reports is a   *)
(* borrowed_box lint at a reference node whose pointee is a Box path; the  *)
(* complexity check scores every node of the same tree (unless the root    *)
(* span comes from a macro expansion).                                     *)
(***************************************************************************)
C5_LocalOnlyBorrowedBox ==
    decl.kind = "Local"
    => /\ \A i \in TI :
            types_log[i].ev \in {"run", "lint"}
            => /\ types_log[i].what = "borrowed_box"
               /\ NodeAt(types_log[i].pos).kind = "Rptr"
               /\ types_log[i].ev = "lint" => borrowed_box_check(NodeAt(types_log[i].pos))
       /\ (ComplexityCalled("check_local") /\ decl.ty # <<>> /\ ~decl.ty[1].exp)
          => \A i \in TI :
                \E j \in CI : /\ complexity_log[j].ev = "enter"
                              /\ complexity_log[j].pos = types_log[i].pos

\* A local whose annotation holds a reference to a Box got its borrowed_box
\* lint, and the annotation was scored.
C5_Witness ==
    /\ decl.kind = "Local"
    /\ \E i \in TI : types_log[i].ev = "lint" /\ Len(types_log[i].pos) > 1
    /\ \E j \in CI : complexity_log[j].ev = "scored"

(***************************************************************************)
(* C6.  A node whose span comes from a macro expansion gets no detector    *)
(* call and no lint, and the walk does not go below it: every entry of the *)
(* log other than a check_ty call names a node that is not expanded, and   *)
(* every entry names a node none of whose ancestors is expanded.  A type   *)
(* with an expanded root therefore yields no lint.                         *)
(***************************************************************************)
C6_ExpandedNodeSkipped ==
    \A j \in TI :
        /\ types_log[j].ev # "check_ty" => ~NodeAt(types_log[j].pos).exp
        /\ \A n \in 1..(Len(types_log[j].pos) - 1) :
              ~NodeAt(SubSeq(types_log[j].pos, 1, n)).exp

\* A field whose type has an expanded root that would otherwise be reported
\* has been walked: the log holds the check_ty call and nothing else.
C6_Witness ==
    /\ decl.kind = "FieldDef"
    /\ decl.ty[1].exp
    /\ WouldFire([decl.ty[1] EXCEPT !.exp = FALSE])
    /\ TypesCalled("check_field_def")
    /\ Len(types_log) = 1

RECURSIVE ClearExp(_)
\* The tree with every macro-expansion mark removed.
ClearExp(ty) ==
    [kind |-> ty.kind, exp |-> FALSE, res |-> ty.res, qpath |-> ty.qpath,
     qself |-> [i \in 1..Len(ty.qself) |-> ClearExp(ty.qself[i])],
     segs |-> [s \in 1..Len(ty.segs) |->
                [a \in 1..Len(ty.segs[s]) |->
                    IF ty.segs[s][a].tag = "Type"
                    THEN TypeArg(ClearExp(ty.segs[s][a].ty))
                    ELSE ty.segs[s][a]]],
     tys |-> [i \in 1..Len(ty.tys) |-> ClearExp(ty.tys[i])],
     abi |-> ty.abi, lt |-> ty.lt]

\* The complexity hook of a field or of an annotated local has run.
ComplexityChecked ==
    /\ decl.ty # <<>>
    /\ \/ decl.kind = "FieldDef" /\ ComplexityCalled("check_field_def")
       \/ decl.kind = "Local" /\ ComplexityCalled("check_local")

(***************************************************************************)
(* C7 as claimed.  The complexity check does not consult the expansion     *)
(* gate: on a type it does what it does on the same type with a root span  *)
(* that is not expanded (same score, same report decision).                *)
(***************************************************************************)
C7_ComplexityIgnoresExpansion ==
    ComplexityChecked
    => complexity_log = check_type(TypeComplexity_self, [decl.ty[1] EXCEPT !.exp = FALSE], <<1>>)

(***************************************************************************)
(* C7 as amended.  check_type consults the expansion gate at the root of   *)
(* the type it is handed: a type with an expanded root is neither scored   *)
(* nor reported.  The visitor does not consult it: under a root that is    *)
(* not expanded, the visitor's steps, the score and the report decision    *)
(* are those of the tree without any expansion mark.                       *)
(***************************************************************************)
C7_ExpansionGateAtRootOnly ==
    ComplexityChecked
    => complexity_log =
          IF decl.ty[1].exp THEN <<>>
          ELSE check_type(TypeComplexity_self, ClearExp(decl.ty[1]), <<1>>)

\* A type with an expanded root whose score would exceed the threshold went
\* through the complexity check.
C7_Witness ==
    /\ ComplexityChecked
    /\ decl.ty[1].exp
    /\ Score(decl.ty[1]) > threshold

(***************************************************************************)
(* C8.  The nesting level is never below 1 during a walk; visit_ty leaves  *)
(* it as it found it, for every node; it is 1 when a type has been scored; *)
(* and the children of one node are all entered at the same level.         *)
(***************************************************************************)
C8_NestRestored ==
    /\ \A i \in CI : complexity_log[i].nest >= 1
    /\ \A i \in CI : complexity_log[i].ev = "scored" => complexity_log[i].nest = 1
    /\ \A i \in CI : \A j \in CI :
          (/\ complexity_log[i].ev = "enter"
           /\ complexity_log[j].ev = "exit"
           /\ complexity_log[j].pos = complexity_log[i].pos)
          => complexity_log[j].nest = complexity_log[i].nest
    /\ \A i \in CI : \A j \in CI :
          (/\ complexity_log[i].ev = "enter"
           /\ complexity_log[j].ev = "enter"
           /\ Len(complexity_log[i].pos) = Len(complexity_log[j].pos)
           /\ Len(complexity_log[i].pos) > 1
           /\ SubSeq(complexity_log[i].pos, 1, Len(complexity_log[i].pos) - 1)
                = SubSeq(complexity_log[j].pos, 1, Len(complexity_log[j].pos) - 1))
          => complexity_log[j].nest = complexity_log[i].nest

\* A scored type has a node with two children, the first of which raised the
\* nesting level for its own children before the second was entered.
C8_Witness ==
    /\ \E i \in CI : complexity_log[i].ev = "scored"
    /\ \E i \in CI : \E j \in CI : \E k \in CI :
          /\ i < k /\ k < j
          /\ complexity_log[i].ev = "enter"
          /\ complexity_log[j].ev = "enter"
          /\ complexity_log[k].ev = "enter"
          /\ complexity_log[i].pos # complexity_log[j].pos
          /\ Len(complexity_log[i].pos) = Len(complexity_log[j].pos)
          /\ Len(complexity_log[i].pos) > 1
          /\ SubSeq(complexity_log[i].pos, 1, Len(complexity_log[i].pos) - 1)
               = SubSeq(complexity_log[j].pos, 1, Len(complexity_log[j].pos) - 1)
          /\ Below(complexity_log[i].pos, complexity_log[k].pos)
          /\ complexity_log[k].nest > complexity_log[i].nest

\* The weight of a node at a nesting level, as the score table states it.
Weight(ty, nest) ==
    CASE ty.kind \in {"Infer", "Ptr", "Rptr"} -> 1
      [] ty.kind \in {"Path", "Slice", "Tup", "Array"} -> 10 * nest
      [] ty.kind = "BareFn" -> IF ty.abi = "Rust" THEN 50 * nest ELSE 0
      [] ty.kind = "TraitObject" -> IF ty.lt THEN 50 * nest ELSE 20 * nest
      [] OTHER -> 0

\* Whether a node's children sit one nesting level deeper.
Nests(ty) ==
    \/ ty.kind \in {"Path", "Slice", "Tup", "Array"}
    \/ ty.kind = "BareFn" /\ ty.abi = "Rust"
    \/ ty.kind = "TraitObject" /\ ty.lt

RECURSIVE ScoreSum(_, _)
RECURSIVE ScoreSumOver(_, _)
\* The sum of the weights of all nodes of ty, ty sitting at level nest.
ScoreSum(ty, nest) ==
    Weight(ty, nest) + ScoreSumOver(ChildTys(ty), IF Nests(ty) THEN nest + 1 ELSE nest)

ScoreSumOver(children, nest) ==
    IF children = <<>> THEN 0
    ELSE ScoreSum(Head(children).ty, nest) + ScoreSumOver(Tail(children), nest)

(***************************************************************************)
(* C9.  The score check_type obtains for a type is the sum, over all nodes *)
(* of the tree, of the node's weight at its nesting level, the root at     *)
(* level 1: a function of the tree alone.                                  *)
(***************************************************************************)
C9_ScoreIsWeightedSum ==
    \A i \in CI :
        complexity_log[i].ev = "scored"
        => complexity_log[i].score = ScoreSum(NodeAt(complexity_log[i].pos), 1)

\* A scored type holds a bare function type of a foreign ABI above a trait
\* object without lifetime parameters above a further node.
C9_Witness ==
    \E i \in CI : \E j \in CI : \E k \in CI :
        /\ complexity_log[i].ev = "enter"
        /\ complexity_log[j].ev = "enter"
        /\ complexity_log[k].ev = "enter"
        /\ NodeAt(complexity_log[i].pos).kind = "BareFn"
        /\ NodeAt(complexity_log[i].pos).abi # "Rust"
        /\ NodeAt(complexity_log[j].pos).kind = "TraitObject"
        /\ ~NodeAt(complexity_log[j].pos).lt
        /\ Below(complexity_log[i].pos, complexity_log[j].pos)
        /\ Below(complexity_log[j].pos, complexity_log[k].pos)
        /\ complexity_log[k].nest > 1
        /\ \E s \in CI : complexity_log[s].ev = "scored" /\ complexity_log[s].score > 0

\* What the complexity log may hold: lints at roots only, one lint for a
\* scored type whose score exceeds the threshold, none for any other type.
OneLintPerOverThresholdType ==
    /\ \A j \in CI :
          complexity_log[j].ev = "lint"
          => /\ Len(complexity_log[j].pos) = 1
             /\ \E i \in CI : /\ complexity_log[i].ev = "scored"
                              /\ complexity_log[i].pos = complexity_log[j].pos
    /\ \A i \in CI :
          complexity_log[i].ev = "scored"
          => Cardinality({j \in CI : /\ complexity_log[j].ev = "lint"
                                     /\ complexity_log[j].pos = complexity_log[i].pos})
               = IF complexity_log[i].score > threshold THEN 1 ELSE 0

(***************************************************************************)
(* C10.  Every step leaves the threshold as it is and leaves a log in      *)
(* which each type the complexity check scored has exactly one lint, at    *)
(* its root, when its score is strictly greater than the threshold, and no *)
(* lint otherwise.                                                         *)
(***************************************************************************)
C10_OneLintIffOverThreshold ==
    [][threshold' = threshold /\ OneLintPerOverThresholdType']_vars

\* One declaration had a type scored exactly at the threshold, without a
\* lint, and a type scored above it, with a lint.
C10_Witness ==
    /\ \E i \in CI :
          /\ complexity_log[i].ev = "scored"
          /\ complexity_log[i].score = threshold
          /\ \A j \in CI : complexity_log[j].ev = "lint"
                           => complexity_log[j].pos # complexity_log[i].pos
    /\ \E i \in CI : \E j \in CI :
          /\ complexity_log[i].ev = "scored"
          /\ complexity_log[i].score > threshold
          /\ complexity_log[j].ev = "lint"
          /\ complexity_log[j].pos = complexity_log[i].pos

\* The indices of the types of the declaration's signature.
FnTyIndices ==
    (1..Len(decl.fn_decl.inputs)) \cup (IF decl.fn_decl.output # <<>> THEN {0} ELSE {})

\* The complexity log holds the score of the type at index k, and a lint for
\* it exactly when the score exceeds the threshold.
ScoredAt(k) ==
    /\ \E i \in CI : /\ complexity_log[i].ev = "scored"
                     /\ complexity_log[i].pos = <<k>>
                     /\ complexity_log[i].score = ScoreSum(TyAt(k), 1)
    /\ (ScoreSum(TyAt(k), 1) > threshold)
         <=> \E i \in CI : complexity_log[i].ev = "lint" /\ complexity_log[i].pos = <<k>>

(***************************************************************************)
(* C11 as claimed.  For the signature of a method of a trait               *)
(* implementation neither pass does anything: both logs stay empty.        *)
(***************************************************************************)
C11_TraitImplFnSkippedByBoth ==
    (decl.kind = "ImplItemFn" /\ decl.of_trait)
    => types_log = <<>> /\ complexity_log = <<>>

(***************************************************************************)
(* C11 as amended.  For the signature of a method of a trait               *)
(* implementation the Types pass does nothing (no check_ty call, no lint), *)
(* while TypeComplexity::check_fn scores every parameter type and the      *)
(* return type whose root span is not expanded and reports those above the *)
(* threshold.                                                              *)
(***************************************************************************)
C11_TraitImplFnSkippedByTypesOnly ==
    (decl.kind = "ImplItemFn" /\ decl.of_trait)
    => /\ types_log = <<>>
       /\ ComplexityCalled("check_fn")
          => \A k \in FnTyIndices : ~TyAt(k).exp => ScoredAt(k)

\* Both passes got the signature of a trait-implementation method with a
\* parameter a detector would report: no pattern lint, one complexity lint.
C11_Witness ==
    /\ decl.kind = "ImplItemFn"
    /\ decl.of_trait
    /\ TypesCalled("check_fn")
    /\ ComplexityCalled("check_fn")
    /\ \E k \in FnTyIndices : WouldFire(TyAt(k))
    /\ types_log = <<>>
    /\ \E i \in CI : complexity_log[i].ev = "lint"

(***************************************************************************)
(* C12.  Once the hooks have run, the type of an impl-item constant or     *)
(* type alias has been pattern-walked and scored, and the type of a static *)
(* or const item has been scored but not pattern-walked.                   *)
(***************************************************************************)
C12_ImplItemWalkedAndScored ==
    /\ (decl.kind \in {"ImplItemConst", "ImplItemTyAlias"} /\ ComplexityCalled("check_impl_item"))
       => /\ \E i \in TI : types_log[i].ev = "check_ty" /\ types_log[i].pos = <<1>>
          /\ ~decl.ty[1].exp => ScoredAt(1)
    /\ (decl.kind \in {"ItemStatic", "ItemConst"} /\ ComplexityCalled("check_item"))
       => /\ types_log = <<>>
          /\ ~decl.ty[1].exp => ScoredAt(1)

\* The position pos names a type node of the declaration.
RECURSIVE IsTyPath(_, _)
IsTyPath(ty, path) ==
    \/ path = <<>>
    \/ LET cs == ChildTys(ty)
       IN  \E k \in 1..Len(cs) : cs[k].idx = Head(path) /\ IsTyPath(cs[k].ty, Tail(path))

IsTyPos(pos) ==
    /\ pos # <<>>
    /\ (IF decl.ty # <<>> THEN pos[1] = 1 ELSE pos[1] \in FnTyIndices)
    /\ IsTyPath(TyAt(pos[1]), Tail(pos))

CallsAt(pos) == {j \in TI : types_log[j].ev = "check_ty" /\ types_log[j].pos = pos}

(***************************************************************************)
(* C14.  The walk only ever names type nodes (never a lifetime or const    *)
(* argument).  At a named-path node outside a local whose resolution gives *)
(* no DefId, no detector is called and no lint is reported, and check_ty   *)
(* is called, with is_local = false, on the qualifying type and on every   *)
(* generic type argument, in their order.                                  *)
(***************************************************************************)
C14_UnresolvedPathStillWalked ==
    /\ \A j \in TI : IsTyPos(types_log[j].pos)
    /\ \A i \in TI :
          (/\ types_log[i].ev = "check_ty"
           /\ ~types_log[i].local
           /\ NodeAt(types_log[i].pos).kind = "Path"
           /\ NodeAt(types_log[i].pos).res = "None"
           /\ ~NodeAt(types_log[i].pos).exp)
          => LET p == types_log[i].pos
                 cs == ChildTys(NodeAt(p))
             IN  /\ \A j \in TI : types_log[j].pos = p => types_log[j].ev = "check_ty"
                 /\ \A k \in 1..Len(cs) :
                       \E j \in CallsAt(Append(p, cs[k].idx)) : j > i /\ ~types_log[j].local
                 /\ \A k \in 1..Len(cs) : \A l \in 1..Len(cs) :
                       k < l => \E a \in CallsAt(Append(p, cs[k].idx)) :
                                   \E b \in CallsAt(Append(p, cs[l].idx)) : a < b

\* The walk went through an unresolved path that has a qualifying type, a
\* lifetime argument and a type argument which a detector reports.
C14_Witness ==
    \E i \in TI : \E j \in TI :
        /\ types_log[i].ev = "check_ty"
        /\ ~types_log[i].local
        /\ NodeAt(types_log[i].pos).kind = "Path"
        /\ NodeAt(types_log[i].pos).res = "None"
        /\ NodeAt(types_log[i].pos).qself # <<>>
        /\ \E a \in 1..Len(FlatArgs(NodeAt(types_log[i].pos).segs)) :
              FlatArgs(NodeAt(types_log[i].pos).segs)[a].tag = "Lifetime"
        /\ types_log[j].ev = "lint"
        /\ Below(types_log[i].pos, types_log[j].pos)

(***************************************************************************)
(* C15.  Within the pass over one declaration the Types pass walks each    *)
(* type of a signature once: the log holds at most one check_ty call per   *)
(* node, and so at most one lint per node and detector.                    *)
(***************************************************************************)
C15_SignatureWalkedOnce ==
    \A i \in TI : \A j \in TI :
        (/\ types_log[i].pos = types_log[j].pos
         /\ types_log[i].ev = types_log[j].ev
         /\ types_log[i].what = types_log[j].what
         /\ types_log[i].ev \in {"check_ty", "lint"})
        => i = j

\* The entries of the system's argv at indices i..argc-1 that precede the
\* first null entry.
RECURSIVE ArgsBeforeNull(_)
ArgsBeforeNull(i) ==
    IF i >= sys_argc \/ sys_argv[i + 1] = NullPtr THEN <<>>
    ELSE <<sys_argv[i + 1]>> \o ArgsBeforeNull(i + 1)

\* What the callers of args() have done and got so far is within the claim.
ArgsCallsOk ==
    \A t \in Callers :
        /\ ~clone_st[t].null_deref
        /\ \A i \in clone_st[t].deref : 0 <= i /\ i < sys_argc
        /\ clone_st[t].pc = "done"
           => \/ clone_st[t].args = ArgsBeforeNull(0)
              \/ /\ clone_st[t].args = <<>>
                 /\ clone_st[t].argv = NullPtr \/ clone_st[t].argc = 0

(***************************************************************************)
(* C16.  In every interleaving of really_init with the callers of args():  *)
(* a finished call has returned the entries of argv at indices 0..argc     *)
(* that precede the first null, in order, or the empty list, the latter    *)
(* only when it loaded a null ARGV or a zero ARGC; no call has read       *)
(* through a null argv or at an index >= argc; and no step of a call       *)
(* changes ARGC, ARGV or the argv array.                                   *)
(***************************************************************************)
C16_ArgsEmptyOrExact ==
    [][/\ ArgsCallsOk'
       /\ (clone_st' # clone_st) => UNCHANGED <<ARGC, ARGV, pending, sys_argc, sys_argv>>]_vars

\* One call returned the arguments up to a null entry in the middle of
\* argv, and another returned the empty list after it loaded the stored
\* ARGV and the initial ARGC.
C16_Witness ==
    \E t \in Callers : \E u \in Callers :
        /\ clone_st[t].pc = "done"
        /\ clone_st[t].args = ArgsBeforeNull(0)
        /\ clone_st[t].args # <<>>
        /\ Len(clone_st[t].args) < sys_argc
        /\ clone_st[u].pc = "done"
        /\ clone_st[u].args = <<>>
        /\ clone_st[u].argv = ArgvPtr

====
